---- MODULE Spec2Model ----
(***************************************************************************)
(* The document ingestion pipeline of the RAG service:                     *)
(*   - ingest_documents_async   (src/rag/src/document_ingest.py), the job  *)
(*     record kept in the in-process map _job_status;                      *)
(*   - run_ingestion_pipeline   (src/rag/src/pipelines/ingest_pipeline.py),*)
(*     the job record kept in the ingestion_jobs table.                    *)
(* A deployment runs one of the two (config.variant).  Jobs share the     *)
(* metadata store (documents, user_documents, document_chunks, papers) and *)
(* the vector store.  External collaborators (download, text extraction,   *)
(* paper detection, embedding, vector upsert, metadata statements) are     *)
(* fallible: each call draws its outcome nondeterministically.  The job    *)
(* store itself is taken as reliable: it is the channel through which      *)
(* every counter is observed.                                              *)
(***************************************************************************)
EXTENDS Integers, Sequences, FiniteSets, Bags, TLC

\* ------------------------------------------------------------------ bounds
MaxSources == 3
\* The calls of the pure functions: documents of up to MaxPages pages split
\* with up to MaxPagesPerChunk pages per chunk; up to MaxPapers papers whose
\* page estimates, like the chunk's pages, lie in 1..MaxPage or are missing.
MaxPages == 20
MaxPagesPerChunk == 9
MaxPapers == 2
MaxPage == 4
PairSources == 1
MaxRetries == 5
\* Texts of up to MaxLen characters, split with token arguments up to
\* MaxTokens.
MaxLen == 6
MaxTokens == 2
MaxSentenceLen == 9
\* The rate limiter: up to MaxCalls calls per period of up to MaxPeriod
\* seconds, observed for MaxTime seconds and MaxInvocations calls.
MaxCalls == 2
MaxPeriod == 3
MaxTime == 6
MaxInvocations == 4

\* ------------------------------------------------------- program constants
PAGES_PER_CHUNK == 8
MIN_TEXT_LEN == 50
MIN_DETECT_LEN == 50
MARKER_LEN == 30
TEXT_SEP_LEN == 2
OPEN_START == 0
OPEN_END == 9999
UNKNOWN_END == 999
DEFAULT_START_PAGE == 1

Jobs == {"j1", "j2"}
UserOf(j) == IF j = "j1" THEN "u1" ELSE "u2"

\* The files a source can materialise to: two valid PDFs and a corrupt one.
Files == {"f1", "f2", "f3", "fx"}
PageCount(f) == CASE f = "f1" -> 3 [] f = "f2" -> 9 [] f = "f3" -> 8 [] OTHER -> 0
IsCorrupt(f) == f = "fx"
NoneInt == -1
NoId == <<>>

\* Lengths of the text the extraction collaborator may return for a chunk.
TextLens == {0, 10, 60}

Range(seq) == {seq[i] : i \in DOMAIN seq}
Max(a, b) == IF a >= b THEN a ELSE b
Min(a, b) == IF a <= b THEN a ELSE b

\* ---------------------------------------------------------- pure functions
compute_sha256(f) == CASE f = "f1" -> "h1" [] f = "f2" -> "h2" [] f = "f3" -> "h3" [] OTHER -> "hx"

\* validate_pdf of document_processor.py: pages[0] is read unconditionally.
validate_pdf(f) == IF IsCorrupt(f) \/ PageCount(f) = 0 THEN NoneInt ELSE PageCount(f)

\* validate_pdf of document/validator.py: pages[0] is read only when it exists.
validator_validate_pdf(f) == IF IsCorrupt(f) THEN NoneInt ELSE PageCount(f)

RECURSIVE SplitWindows(_, _, _, _)
SplitWindows(start_page, total_pages, pages_per_chunk, chunk_number) ==
    IF start_page >= total_pages THEN <<>>
    ELSE <<[chunk_number |-> chunk_number,
            page_start |-> start_page + 1,
            page_end |-> Min(start_page + pages_per_chunk, total_pages)]>>
         \o SplitWindows(start_page + pages_per_chunk, total_pages,
                         pages_per_chunk, chunk_number + 1)

\* split_pdf as it would be if the loop ran over the full windows only
\* (range(0, total_pages - pages_per_chunk + 1, pages_per_chunk)).
split_pdf_full_windows(total_pages, pages_per_chunk) ==
    IF total_pages <= pages_per_chunk
    THEN <<[chunk_number |-> 1, page_start |-> 1, page_end |-> total_pages]>>
    ELSE [i \in 1..(total_pages \div pages_per_chunk) |->
            [chunk_number |-> i,
             page_start |-> (i - 1) * pages_per_chunk + 1,
             page_end |-> i * pages_per_chunk]]

split_pdf(total_pages, pages_per_chunk) ==
    IF total_pages <= pages_per_chunk
    THEN <<[chunk_number |-> 1, page_start |-> 1, page_end |-> total_pages]>>
    ELSE SplitWindows(0, total_pages, pages_per_chunk, 1)

\* cleanup_directory as it would be if it left the directory in place.
cleanup_directory_kept(path) == path

\* cleanup_directory: rmtree when the path exists. A work directory is
\* "none" before mkdtemp, "made" after it, "removed" after rmtree.
cleanup_directory(path) == IF path = "made" THEN "removed" ELSE path

\* dict.update / UPDATE ... SET: the keys of updates replace those of the row.
update_job_status(jobs, j, updates) == [jobs EXCEPT ![j] = updates @@ jobs[j]]

\* ---------------------------------------------------- paper attribution
\* A paper as detect_exam_papers of document_processor.py returns it and
\* save_papers_metadata completes it: the estimates and the id may be None.
PStart(p) == IF p.start_page_estimate = NoneInt THEN OPEN_START ELSE p.start_page_estimate
PEnd(p) == IF p.end_page_estimate = NoneInt THEN OPEN_END ELSE p.end_page_estimate

\* PaperOverlaps as it would be with a strict comparison.
PaperOverlapsStrict(chunk_info, p) ==
    Max(chunk_info.page_start, PStart(p)) < Min(chunk_info.page_end, PEnd(p))

PaperOverlaps(chunk_info, p) ==
    Max(chunk_info.page_start, PStart(p)) <= Min(chunk_info.page_end, PEnd(p))

\* find_all_overlapping_papers as it would be without the single-paper case.
find_all_overlapping_papers_by_pages(chunk_info, papers) ==
    SelectSeq(papers, LAMBDA p : Max(chunk_info.page_start, PStart(p))
                                    <= Min(chunk_info.page_end, PEnd(p)))

find_all_overlapping_papers(chunk_info, papers) ==
    IF papers = <<>> THEN <<>>
    ELSE IF Len(papers) = 1 THEN papers
    ELSE SelectSeq(papers, LAMBDA p : PaperOverlaps(chunk_info, p))

\* The loop of find_matching_paper: best is <<>> (None) or <<best_paper>>.
RECURSIVE BestPaper(_, _, _, _)
BestPaper(chunk_info, papers, best, max_overlap) ==
    IF papers = <<>> THEN best
    ELSE LET p == Head(papers)
             overlap_start == Max(chunk_info.page_start, PStart(p))
             overlap_end == Min(chunk_info.page_end, PEnd(p))
             overlap_len == overlap_end - overlap_start + 1
         IN  IF overlap_start <= overlap_end /\ overlap_len > max_overlap
             THEN BestPaper(chunk_info, Tail(papers), <<p>>, overlap_len)
             ELSE BestPaper(chunk_info, Tail(papers), best, max_overlap)

\* find_matching_paper as it would be if an empty list gave a default id.
find_matching_paper_or_default(chunk_info, papers) ==
    IF papers = <<>> THEN <<0>>
    ELSE IF Len(papers) = 1 THEN papers[1].id
    ELSE LET best == BestPaper(chunk_info, papers, <<>>, 0)
         IN  IF best = <<>> THEN NoId ELSE best[1].id

\* find_matching_paper as it would be with overlap_len >= max_overlap: of
\* the papers that tie, the last one wins.
RECURSIVE BestPaperLastTie(_, _, _, _)
BestPaperLastTie(chunk_info, papers, best, max_overlap) ==
    IF papers = <<>> THEN best
    ELSE LET p == Head(papers)
             overlap_start == Max(chunk_info.page_start, PStart(p))
             overlap_end == Min(chunk_info.page_end, PEnd(p))
             overlap_len == overlap_end - overlap_start + 1
         IN  IF overlap_start <= overlap_end /\ overlap_len >= max_overlap
             THEN BestPaperLastTie(chunk_info, Tail(papers), <<p>>, overlap_len)
             ELSE BestPaperLastTie(chunk_info, Tail(papers), best, max_overlap)

find_matching_paper_last_tie(chunk_info, papers) ==
    IF papers = <<>> THEN NoId
    ELSE IF Len(papers) = 1 THEN papers[1].id
    ELSE LET best == BestPaperLastTie(chunk_info, papers, <<>>, 0)
         IN  IF best = <<>> THEN NoId ELSE best[1].id

find_matching_paper(chunk_info, papers) ==
    IF papers = <<>> THEN NoId
    ELSE IF Len(papers) = 1 THEN papers[1].id
    ELSE LET best == BestPaper(chunk_info, papers, <<>>, 0)
         IN  IF best = <<>> THEN NoId ELSE best[1].id

\* The papers the detector of document_processor.py may return; its except
\* branch returns the "Unknown Subject" placeholder.
UnknownPaper == [subject |-> "Unknown Subject", start_page_estimate |-> 1,
                 end_page_estimate |-> UNKNOWN_END, id |-> NoId]
PaperS1 == [subject |-> "s1", start_page_estimate |-> 1,
            end_page_estimate |-> 5, id |-> NoId]
PaperS2 == [subject |-> "s2", start_page_estimate |-> 6,
            end_page_estimate |-> NoneInt, id |-> NoId]
\* What the detector answers for a file: the papers it finds in it, or, when
\* the call fails, the placeholder of its except branch.
PapersIn(f) == IF f = "f2" THEN <<PaperS1, PaperS2>> ELSE <<>>
detect_exam_papers(f, call_ok) == IF call_ok THEN PapersIn(f) ELSE <<UnknownPaper>>

\* The papers the detector of services/metadata_service.py may return
\* (start_page / end_page keys; AbsentKey: the key is not in the dict).
AbsentKey == -2
SvcPaper1 == [subject |-> "s1", exam_type |-> "end", start_page |-> 1, end_page |-> 5]
SvcPaper2 == [subject |-> "s2", exam_type |-> "end", start_page |-> 6, end_page |-> AbsentKey]
SvcPapersIn(f) == IF f = "f2" THEN <<SvcPaper1, SvcPaper2>> ELSE <<SvcPaper1>>
\* detect_exam_papers of services/metadata_service.py: [] for a text shorter
\* than 50 characters and [] when the call or the JSON parse fails.
svc_detect_exam_papers(f, text_len, call_ok) ==
    IF text_len < MIN_DETECT_LEN \/ ~call_ok THEN <<>> ELSE SvcPapersIn(f)

\* The relevant-paper filter inlined in run_ingestion_pipeline.
SvcStart(p) == IF p.start_page = AbsentKey THEN DEFAULT_START_PAGE ELSE p.start_page
SvcEnd(p) == IF p.end_page = AbsentKey THEN OPEN_END ELSE p.end_page
relevant_papers(chunk, papers_metadata) ==
    SelectSeq(papers_metadata,
              LAMBDA p : Max(chunk.page_start, SvcStart(p)) <= Min(chunk.page_end, SvcEnd(p)))

\* ------------------------------------------------------- metadata store
\* Tables are bags of rows: a statement that ignored its ON CONFLICT clause
\* would leave a second copy of a row.
HasDocument(rows, sha) == \E r \in BagToSet(rows) : r.sha256_hash = sha

\* The rows of a table that lie in the set kept, with their copies.
RowsIn(rows, kept) == [r \in kept \cap BagToSet(rows) |-> rows[r]]

\* insert_document as it would be with DO UPDATE SET on every column.
insert_document_overwrite(rows, row) ==
    LET hit == {r \in BagToSet(rows) : r.sha256_hash = row.sha256_hash}
    IN  RowsIn(rows, BagToSet(rows) \ hit) (+) SetToBag({row})

\* INSERT INTO documents ... ON CONFLICT (sha256_hash) DO UPDATE SET status
insert_document(rows, row) ==
    IF HasDocument(rows, row.sha256_hash)
    THEN LET hit == {r \in BagToSet(rows) : r.sha256_hash = row.sha256_hash}
             kept == RowsIn(rows, BagToSet(rows) \ hit)
         IN  kept (+) SetToBag({[r EXCEPT !.status = row.status] : r \in hit})
    ELSE rows (+) SetToBag({row})

\* INSERT INTO user_documents ... ON CONFLICT (user_id, document_sha256) DO NOTHING
insert_user_document(rows, user_id, sha) ==
    LET row == [user_id |-> user_id, document_sha256 |-> sha]
    IN  IF BagIn(row, rows) THEN rows ELSE rows (+) SetToBag({row})

\* INSERT INTO document_chunks ... ON CONFLICT (document_sha256, chunk_number)
\* DO UPDATE SET qdrant_point_id, followed by INSERT INTO chunk_papers ...
\* ON CONFLICT DO NOTHING for each paper id: the links of a chunk are the
\* set paper_ids of its row.
SameChunk(r, sha, n) == r.document_sha256 = sha /\ r.chunk_number = n
insert_chunk(rows, row) ==
    IF \E r \in BagToSet(rows) : SameChunk(r, row.document_sha256, row.chunk_number)
    THEN LET hit == {r \in BagToSet(rows) : SameChunk(r, row.document_sha256, row.chunk_number)}
             kept == RowsIn(rows, BagToSet(rows) \ hit)
         IN  kept (+) SetToBag({[r EXCEPT !.qdrant_point_id = row.qdrant_point_id,
                                                !.paper_ids = @ \cup row.paper_ids] : r \in hit})
    ELSE rows (+) SetToBag({row})

\* ---------------------------------------------------------------- state
VARIABLES
    config,           \* the deployment: which pipeline it runs, which jobs are submitted
    job,              \* the job records (_job_status / table ingestion_jobs)
    run,              \* each pipeline run's position and local variables
    documents,        \* table documents
    user_documents,   \* table user_documents
    document_chunks,  \* table document_chunks
    papers,           \* table papers
    vectors,          \* the points of the vector collection
    trace,            \* history: the outcome of each source a run has finished
    observed,         \* the job record a status poll has just read
    calc              \* one call of a pure function: its arguments and its result

vars == <<config, job, run, documents, user_documents, document_chunks,
          papers, vectors, trace, observed, calc>>

NoJob == [status |-> "absent", user_id |-> "none", total_sources |-> 0,
          processed |-> 0, successful |-> 0, failed |-> 0, duplicates |-> 0,
          errors |-> <<>>, documents |-> <<>>]

NoSource == [type |-> "none", value |-> "none"]

NoCalc == [op |-> "none"]

\* The loop variables of one source; rebound at the top of every iteration.
\* did is history: the stages of the pipeline this source has gone through.
SourceLocals == [source |-> NoSource, sha256 |-> "none", total_pages |-> 0,
                 todo |-> <<>>, detected_papers |-> <<>>, paper_db_ids |-> <<>>,
                 stored |-> <<>>, tosave |-> <<>>, did |-> {}]

\* missed is history: the hashes this run's duplicate check looked up while
\* the store had no row for them.
RunInit == [pc |-> "idle", idx |-> 0, work_dir |-> "none", exc |-> "none",
            missed |-> {},
            processed_count |-> 0, success_count |-> 0, duplicates_count |-> 0,
            errors_list |-> <<>>, documents_list |-> <<>>] @@ SourceLocals

\* POST /ingest takes URLs and uploaded files; POST /ingest/url takes URLs.
AsyncSources == [type : {"url", "file"}, value : Files]
PipelineSources == [type : {"url"}, value : Files]

InitStores ==
    /\ job = [j \in Jobs |-> NoJob]
    /\ run = [j \in Jobs |-> RunInit]
    /\ documents = EmptyBag
    /\ user_documents = EmptyBag
    /\ document_chunks = EmptyBag
    /\ papers = {}
    /\ vectors = {}
    /\ trace = <<>>
    /\ observed = NoJob

\* One job of up to MaxSources sources.
Init ==
    /\ config \in [variant : {"async", "pipeline"}, jobs : {{"j1"}},
                   max_sources : {MaxSources}, files : {{"f1", "f3", "fx"}}]
    /\ InitStores
    /\ calc = NoCalc

\* Two jobs submitted to two server processes, each of PairSources sources
\* with the same content.
InitPair ==
    /\ config \in [variant : {"async", "pipeline"}, jobs : {{"j1", "j2"}},
                   max_sources : {PairSources}, files : {{"f1"}}]
    /\ InitStores
    /\ calc = NoCalc

\* A status poll's response is gone once the pipeline moves on.
Unobserved == observed' = NoJob

\* create_job, called by the route with total_sources = len(sources) >= 1.
create_job(j) ==
    /\ j \in config.jobs
    /\ run[j].pc = "idle"
    /\ \E n \in 1..config.max_sources :
         job' = [job EXCEPT ![j] = [NoJob EXCEPT !.status = "processing",
                                                 !.user_id = UserOf(j),
                                                 !.total_sources = n]]
    /\ run' = [run EXCEPT ![j].pc = "created"]
    /\ Unobserved
    /\ UNCHANGED <<config, calc, documents, user_documents, document_chunks,
                   papers, vectors, trace>>

\* get_job_status: the poller reads the whole job record at once.
get_job_status(j) ==
    /\ job[j].status # "absent"
    /\ observed' = job[j]
    /\ UNCHANGED <<config, calc, job, run, documents, user_documents,
                   document_chunks, papers, vectors, trace>>

\* A source is finished: the loop goes to its next iteration.
NextSource(r) == SourceLocals @@ [r EXCEPT !.pc = "loop", !.idx = @ + 1]

Logged(j, sha, outcome, error) ==
    trace' = Append(trace, [job |-> j, sha256 |-> sha, outcome |-> outcome,
                            error |-> error])

\* check_document_exists: a database error is swallowed and reads as "new".
check_document_exists(rows, sha, db_ok) == db_ok /\ HasDocument(rows, sha)

\* The chunks with the text extracted from each.
WithText(chunks, texts) ==
    [i \in 1..Len(chunks) |-> chunks[i] @@ [text_len |-> texts[i]]]

\* The name a source's file is stored under: the one download_pdf derives
\* from the URL, or the one the upload came with.
OriginalFilename(source) ==
    IF source.type = "url" THEN <<"download", source.value>>
    ELSE <<"upload", source.value>>

DocumentRow(r) ==
    [sha256_hash |-> r.sha256, original_filename |-> OriginalFilename(r.source),
     total_pages |-> r.total_pages,
     upload_source |-> r.source.type,
     source_url |-> IF r.source.type = "url" THEN r.source.value ELSE "none",
     status |-> "completed"]

\* A fresh uuid4: the first id of its (job, document, chunk) not yet stored.
PointId(points, j, sha, chunk_number) ==
    <<j, sha, chunk_number,
      1 + Cardinality({v \in points : /\ v.id[1] = j
                                      /\ v.document_sha256 = sha
                                      /\ v.chunk_number = chunk_number})>>

\* A fresh id of table papers.
PaperId(rows, j, sha, pos) ==
    <<j, sha, pos,
      1 + Cardinality({r \in rows : /\ r.id[1] = j /\ r.id[2] = sha /\ r.id[3] = pos})>>

PaperIds(plist) ==
    LET with_id == SelectSeq(plist, LAMBDA p : p.id # NoId)
    IN  [i \in 1..Len(with_id) |-> with_id[i].id]

\* ------------------------------------------- ingest_documents_async (A)

\* process_document: download or save, validate, hash, split.
process_document(source, download_ok) ==
    IF source.type = "url" /\ ~download_ok
    THEN [error |-> "Download failed"]
    ELSE IF validate_pdf(source.value) = NoneInt
    THEN [error |-> "Invalid or corrupted PDF"]
    ELSE [sha256 |-> compute_sha256(source.value),
          total_pages |-> validate_pdf(source.value),
          chunks |-> split_pdf(validate_pdf(source.value), PAGES_PER_CHUNK)]

\* AsyncFailed as it would be if the source were counted both where the
\* error is found and in the handler.
AsyncFailedTwice(jobs, j, error) ==
    update_job_status(jobs, j, [processed |-> jobs[j].processed + 2,
                                failed |-> jobs[j].failed + 1,
                                errors |-> Append(jobs[j].errors, error)])

AsyncFailed(jobs, j, error) ==
    update_job_status(jobs, j, [processed |-> jobs[j].processed + 1,
                                failed |-> jobs[j].failed + 1,
                                errors |-> Append(jobs[j].errors, error)])

\* AsyncDuplicate as it would be if the duplicate branch forgot processed.
AsyncDuplicateUncounted(jobs, j, sha) ==
    update_job_status(jobs, j, [successful |-> jobs[j].successful + 1,
                                duplicates |-> jobs[j].duplicates + 1,
                                documents |-> Append(jobs[j].documents, sha)])

AsyncDuplicate(jobs, j, sha) ==
    update_job_status(jobs, j, [processed |-> jobs[j].processed + 1,
                                successful |-> jobs[j].successful + 1,
                                duplicates |-> jobs[j].duplicates + 1,
                                documents |-> Append(jobs[j].documents, sha)])

AsyncSuccessful(jobs, j, sha) ==
    update_job_status(jobs, j, [processed |-> jobs[j].processed + 1,
                                successful |-> jobs[j].successful + 1,
                                documents |-> Append(jobs[j].documents, sha)])

\* The per-source handler: the source is counted as failed, the loop goes on.
AsyncSourceFailed(j, error) ==
    /\ job' = AsyncFailed(job, j, error)
    /\ run' = [run EXCEPT ![j] = NextSource(@)]
    /\ Logged(j, run[j].sha256, "failed", error)

\* The background task starts: mkdtemp, then ensure_collection, whose error fails the job.
AsyncBegin(j) ==
    /\ config.variant = "async"
    /\ run[j].pc = "created"
    /\ \E collection_ok \in BOOLEAN :
         IF collection_ok
         THEN /\ run' = [run EXCEPT ![j].pc = "loop", ![j].work_dir = "made"]
              /\ UNCHANGED job
         ELSE /\ job' = update_job_status(job, j,
                          [status |-> "failed",
                           errors |-> Append(job[j].errors, "Job error")])
              /\ run' = [run EXCEPT ![j].pc = "done", ![j].work_dir = "removed",
                                    ![j].exc = "Job error"]
    /\ Unobserved
    /\ UNCHANGED <<config, calc, documents, user_documents, document_chunks,
                   papers, vectors, trace>>

\* The chunks kept by the pre-extraction loop.
AsyncExtracted(chunks, texts) ==
    SelectSeq(WithText(chunks, texts), LAMBDA c : c.text_len >= MIN_TEXT_LEN)

\* One iteration up to the duplicate check; a new document goes on through
\* text extraction and paper detection, which touch no store.
AsyncProcessDocument(j) ==
    /\ config.variant = "async"
    /\ run[j].pc = "loop"
    /\ run[j].idx < job[j].total_sources
    /\ \E source \in AsyncSources, download_ok, db_ok, call_ok \in BOOLEAN :
         source.value \in config.files /\
         LET doc_info == process_document(source, download_ok)
             failed == "error" \in DOMAIN doc_info
             split == IF failed THEN {} ELSE {"split"}
         IN  /\ IF failed
                THEN AsyncSourceFailed(j, doc_info.error)
                ELSE IF check_document_exists(documents, doc_info.sha256, db_ok)
                THEN /\ run' = [run EXCEPT ![j].pc = "link",
                                           ![j].source = source,
                                           ![j].sha256 = doc_info.sha256,
                                           ![j].total_pages = doc_info.total_pages,
                                           ![j].did = split]
                     /\ UNCHANGED <<job, trace>>
                ELSE \E texts \in [1..Len(doc_info.chunks) -> TextLens] :
                     /\ run' = [run EXCEPT
                          ![j].pc = "save_document",
                          ![j].missed = @ \cup
                              IF HasDocument(documents, doc_info.sha256)
                              THEN {} ELSE {doc_info.sha256},
                          ![j].source = source,
                          ![j].sha256 = doc_info.sha256,
                          ![j].total_pages = doc_info.total_pages,
                          ![j].todo = AsyncExtracted(doc_info.chunks, texts),
                          ![j].detected_papers =
                              detect_exam_papers(source.value, call_ok),
                          ![j].did = split \cup {"extract"}]
                     /\ UNCHANGED <<job, trace>>
    /\ Unobserved
    /\ UNCHANGED <<config, calc, documents, user_documents, document_chunks,
                   papers, vectors>>

\* An existing document is only linked to the user; a failed insert raises.
AsyncLink(j) ==
    /\ config.variant = "async"
    /\ run[j].pc = "link"
    /\ \E db_ok \in BOOLEAN :
         IF db_ok
         THEN /\ user_documents' =
                    insert_user_document(user_documents, job[j].user_id, run[j].sha256)
              /\ job' = AsyncDuplicate(job, j, run[j].sha256)
              /\ run' = [run EXCEPT ![j] = NextSource(@)]
              /\ Logged(j, run[j].sha256, "duplicate", "none")
         ELSE /\ AsyncSourceFailed(j, "Database link error")
              /\ UNCHANGED user_documents
    /\ Unobserved
    /\ UNCHANGED <<config, calc, documents, document_chunks, papers, vectors>>

\* save_document_metadata: the document row and the user's link in one
\* transaction; an error is re-raised.
AsyncSaveDocument(j) ==
    /\ config.variant = "async"
    /\ run[j].pc = "save_document"
    /\ \E db_ok \in BOOLEAN :
         IF db_ok
         THEN /\ documents' = insert_document(documents, DocumentRow(run[j]))
              /\ user_documents' =
                    insert_user_document(user_documents, job[j].user_id, run[j].sha256)
              /\ run' = [run EXCEPT ![j].pc = "save_papers"]
              /\ UNCHANGED <<job, trace>>
         ELSE /\ AsyncSourceFailed(j, "Database save error")
              /\ UNCHANGED <<documents, user_documents>>
    /\ Unobserved
    /\ UNCHANGED <<config, calc, document_chunks, papers, vectors>>

\* save_papers_metadata: one INSERT per paper, each writing the new id back
\* into the paper's dict, then one commit. fail_at = 0: no statement fails;
\* fail_at = k: the k-th INSERT fails, nothing is committed, and the list
\* comes back with the ids of the k - 1 rows that were rolled back.
RolledBackId(j, sha, pos) == <<j, sha, pos, 0>>

save_papers_metadata(rows, j, sha, plist, fail_at) ==
    IF fail_at = 0
    THEN LET saved == [i \in 1..Len(plist) |->
                          [plist[i] EXCEPT !.id = PaperId(rows, j, sha, i)]]
         IN  [returned |-> saved,
              rows |-> rows \cup {[id |-> saved[i].id, document_sha256 |-> sha,
                                   subject |-> saved[i].subject,
                                   start_page |-> saved[i].start_page_estimate,
                                   end_page |-> saved[i].end_page_estimate]
                                  : i \in 1..Len(plist)}]
    ELSE [returned |-> [i \in 1..Len(plist) |->
                          IF i < fail_at
                          THEN [plist[i] EXCEPT !.id = RolledBackId(j, sha, i)]
                          ELSE plist[i]],
          rows |-> rows]

AsyncSavePapers(j) ==
    /\ config.variant = "async"
    /\ run[j].pc = "save_papers"
    /\ \E fail_at \in 0..Len(run[j].detected_papers) :
         LET result == save_papers_metadata(papers, j, run[j].sha256,
                                            run[j].detected_papers, fail_at)
         IN  /\ papers' = result.rows
             /\ run' = [run EXCEPT ![j].pc = "chunks",
                                   ![j].detected_papers = result.returned]
    /\ Unobserved
    /\ UNCHANGED <<config, calc, job, documents, user_documents, document_chunks,
                   vectors, trace>>

\* The point of one chunk: a fresh id and the ids of the overlapping papers.
AsyncPoint(points, j, r, chunk) ==
    [id |-> PointId(points, j, r.sha256, chunk.chunk_number),
     document_sha256 |-> r.sha256,
     chunk_number |-> chunk.chunk_number,
     paper_ids |-> PaperIds(find_all_overlapping_papers(chunk, r.detected_papers))]

\* One round of the chunk loop: embed, then upsert the point; either error
\* reaches the per-source handler. After the last chunk, a source none of
\* whose chunks was stored is counted as failed.
AsyncChunk(j) ==
    /\ config.variant = "async"
    /\ run[j].pc = "chunks"
    /\ IF run[j].todo = <<>>
       THEN /\ IF run[j].stored = <<>>
               THEN AsyncSourceFailed(j, "No chunks processed successfully")
               ELSE /\ run' = [run EXCEPT ![j].pc = "save_chunks",
                                          ![j].tosave = run[j].stored]
                    /\ UNCHANGED <<job, trace>>
            /\ UNCHANGED vectors
       ELSE \E outcome \in {"ok", "embed_error", "upsert_error"} :
              LET chunk == Head(run[j].todo)
                  point == AsyncPoint(vectors, j, run[j], chunk)
              IN  IF outcome = "ok"
                  THEN /\ vectors' = vectors \cup {point}
                       /\ run' = [run EXCEPT
                            ![j].todo = Tail(@),
                            ![j].stored = Append(@,
                                [chunk_info |-> chunk @@
                                    [paper_id |-> find_matching_paper(chunk,
                                                     run[j].detected_papers)],
                                 point_id |-> point.id,
                                 paper_ids |-> point.paper_ids]),
                            ![j].did = @ \cup {"embed", "upsert"}]
                       /\ UNCHANGED <<job, trace>>
                  ELSE /\ AsyncSourceFailed(j, outcome)
                       /\ UNCHANGED vectors
    /\ Unobserved
    /\ UNCHANGED <<config, calc, documents, user_documents, document_chunks, papers>>

ChunkRow(sha, chunk_data, links) ==
    [document_sha256 |-> sha,
     chunk_number |-> chunk_data.chunk_info.chunk_number,
     page_range_start |-> chunk_data.chunk_info.page_start,
     page_range_end |-> chunk_data.chunk_info.page_end,
     qdrant_point_id |-> chunk_data.point_id,
     paper_ids |-> links]

\* save_chunk_metadata for each stored chunk (its error is only printed),
\* then the source is counted as successful.
AsyncSaveChunk(j) ==
    /\ config.variant = "async"
    /\ run[j].pc = "save_chunks"
    /\ IF run[j].tosave = <<>>
       THEN /\ job' = AsyncSuccessful(job, j, run[j].sha256)
            /\ run' = [run EXCEPT ![j] = NextSource(@)]
            /\ Logged(j, run[j].sha256, "successful", "none")
            /\ UNCHANGED document_chunks
       ELSE /\ \E db_ok \in BOOLEAN :
                 document_chunks' =
                    IF db_ok
                    THEN insert_chunk(document_chunks,
                            ChunkRow(run[j].sha256, Head(run[j].tosave),
                                     Range(Head(run[j].tosave).paper_ids)))
                    ELSE document_chunks
            /\ run' = [run EXCEPT ![j].tosave = Tail(@)]
            /\ UNCHANGED <<job, trace>>
    /\ Unobserved
    /\ UNCHANGED <<config, calc, documents, user_documents, papers, vectors>>

\* After the last source: the job is marked completed and the work
\* directory removed.
AsyncComplete(j) ==
    /\ config.variant = "async"
    /\ run[j].pc = "loop"
    /\ run[j].idx >= job[j].total_sources
    /\ job' = update_job_status(job, j, [status |-> "completed"])
    /\ run' = [run EXCEPT ![j].pc = "done", ![j].work_dir = "removed"]
    /\ Unobserved
    /\ UNCHANGED <<config, calc, documents, user_documents, document_chunks,
                   papers, vectors, trace>>

\* --------------------------------------------- run_ingestion_pipeline (B)

\* The counters of the run are local variables; each update writes the
\* values of the moment into the job row.
PipeDownloadFailed(jobs, j, r) ==
    update_job_status(jobs, j, [processed |-> r.processed_count,
                                errors |-> r.errors_list])

PipeDuplicate(jobs, j, r) ==
    update_job_status(jobs, j, [processed |-> r.processed_count,
                                successful |-> r.success_count,
                                duplicates |-> r.duplicates_count,
                                documents |-> r.documents_list])

PipeSuccessful(jobs, j, r) ==
    update_job_status(jobs, j, [status |-> "completed",
                                successful |-> r.success_count,
                                processed |-> r.processed_count,
                                documents |-> r.documents_list])

PipeFailed(jobs, j, r) ==
    update_job_status(jobs, j, [status |-> "failed", errors |-> r.errors_list])

PipeFinal(jobs, j, r) ==
    update_job_status(jobs, j, [processed |-> r.processed_count,
                                successful |-> r.success_count,
                                duplicates |-> r.duplicates_count,
                                errors |-> r.errors_list])

\* An exception leaves the loop for the handler of the whole run.
PipeRaise(j, r, error) ==
    /\ run' = [run EXCEPT ![j] = [r EXCEPT !.pc = "except", !.exc = error]]
    /\ Logged(j, r.sha256, "aborted", error)

\* The background task starts: create_temp_dir, then ensure_collection, which swallows
\* the collection's errors but not those of get_qdrant_client.
PipeBegin(j) ==
    /\ config.variant = "pipeline"
    /\ run[j].pc = "created"
    /\ \E client_ok \in BOOLEAN :
         run' = [run EXCEPT ![j].work_dir = "made",
                            ![j].pc = IF client_ok THEN "loop" ELSE "except",
                            ![j].exc = IF client_ok THEN "none" ELSE "Job error"]
    /\ Unobserved
    /\ UNCHANGED <<config, calc, job, documents, user_documents, document_chunks,
                   papers, vectors, trace>>

\* One iteration up to the duplicate check; a new document is split, which
\* raises on a file that cannot be read.
PipeSource(j) ==
    /\ config.variant = "pipeline"
    /\ run[j].pc = "loop"
    /\ run[j].idx < job[j].total_sources
    /\ \E source \in PipelineSources, download_ok, db_ok \in BOOLEAN :
         source.value \in config.files /\
         LET counted == [run[j] EXCEPT !.processed_count = @ + 1,
                                       !.source = source]
             sha256 == compute_sha256(source.value)
             hashed == [counted EXCEPT !.sha256 = sha256]
         IN  IF ~download_ok
             THEN LET r == [counted EXCEPT
                              !.errors_list = Append(@, "Download failed")]
                  IN  /\ job' = PipeDownloadFailed(job, j, r)
                      /\ run' = [run EXCEPT ![j] = NextSource(r)]
                      /\ Logged(j, "none", "failed", "Download failed")
             ELSE IF check_document_exists(documents, sha256, db_ok)
             THEN /\ run' = [run EXCEPT ![j] = [hashed EXCEPT !.pc = "link"]]
                  /\ UNCHANGED <<job, trace>>
             ELSE IF IsCorrupt(source.value)
             THEN /\ PipeRaise(j, hashed, "PDF splitting failed")
                  /\ UNCHANGED job
             ELSE /\ run' = [run EXCEPT ![j] =
                       [hashed EXCEPT
                          !.pc = "save_document",
                          !.missed = @ \cup IF HasDocument(documents, sha256)
                                            THEN {} ELSE {sha256},
                          !.todo = split_pdf(PageCount(source.value), PAGES_PER_CHUNK),
                          !.total_pages = validator_validate_pdf(source.value),
                          !.did = {"split"}]]
                  /\ UNCHANGED <<job, trace>>
    /\ Unobserved
    /\ UNCHANGED <<config, calc, documents, user_documents, document_chunks,
                   papers, vectors>>

\* An existing document is linked to the user (an error of the insert is
\* only printed) and counted as successful and as a duplicate.
PipeLink(j) ==
    /\ config.variant = "pipeline"
    /\ run[j].pc = "link"
    /\ \E db_ok \in BOOLEAN :
         user_documents' =
            IF db_ok
            THEN insert_user_document(user_documents, job[j].user_id, run[j].sha256)
            ELSE user_documents
    /\ LET r == [run[j] EXCEPT !.success_count = @ + 1,
                               !.duplicates_count = @ + 1,
                               !.documents_list = Append(@, run[j].sha256)]
       IN  /\ job' = PipeDuplicate(job, j, r)
           /\ run' = [run EXCEPT ![j] = NextSource(r)]
    /\ Logged(j, run[j].sha256, "duplicate", "none")
    /\ Unobserved
    /\ UNCHANGED <<config, calc, documents, document_chunks, papers, vectors>>

\* The chunks kept by the extraction loop, and the length of the text it
\* hands to the detector: a page marker, the text and a separator per chunk.
PipeExtracted(chunks, texts) ==
    SelectSeq(WithText(chunks, texts), LAMBDA c : c.text_len > 0)

RECURSIVE BufferLen(_)
BufferLen(extracted) ==
    IF extracted = <<>> THEN 0
    ELSE MARKER_LEN + Head(extracted).text_len + TEXT_SEP_LEN
         + BufferLen(Tail(extracted))

\* save_document_metadata (an error is only printed), then text extraction
\* and paper detection.
PipeSaveDocument(j) ==
    /\ config.variant = "pipeline"
    /\ run[j].pc = "save_document"
    /\ \E db_ok \in BOOLEAN :
         IF db_ok
         THEN /\ documents' = insert_document(documents, DocumentRow(run[j]))
              /\ user_documents' =
                    insert_user_document(user_documents, job[j].user_id, run[j].sha256)
         ELSE UNCHANGED <<documents, user_documents>>
    /\ \E texts \in [1..Len(run[j].todo) -> TextLens], call_ok \in BOOLEAN :
         LET extracted_chunks == PipeExtracted(run[j].todo, texts)
         IN  run' = [run EXCEPT
                ![j].pc = "save_papers",
                ![j].todo = extracted_chunks,
                ![j].detected_papers =
                    svc_detect_exam_papers(run[j].source.value,
                                           BufferLen(extracted_chunks), call_ok),
                ![j].did = @ \cup {"extract"}]
    /\ Unobserved
    /\ UNCHANGED <<config, calc, job, document_chunks, papers, vectors, trace>>

\* save_papers: each paper is looked up by subject, year and exam type in
\* the whole table and inserted when no row matches; one commit at the end.
SamePaper(row, paper) ==
    /\ "exam_type" \in DOMAIN row
    /\ row.subject = paper.subject
    /\ row.exam_type = paper.exam_type

RECURSIVE SavePapersLoop(_, _, _, _, _, _)
SavePapersLoop(rows, j, sha, paper_list, pos, paper_ids) ==
    IF pos > Len(paper_list) THEN [returned |-> paper_ids, rows |-> rows]
    ELSE LET paper == paper_list[pos]
             found == {row \in rows : SamePaper(row, paper)}
         IN  IF found # {}
             THEN SavePapersLoop(rows, j, sha, paper_list, pos + 1,
                                 Append(paper_ids, (CHOOSE row \in found : TRUE).id))
             ELSE LET p_id == PaperId(rows, j, sha, pos)
                  IN  SavePapersLoop(
                         rows \cup {[id |-> p_id, document_sha256 |-> sha,
                                     subject |-> paper.subject,
                                     exam_type |-> paper.exam_type,
                                     start_page |-> paper.start_page,
                                     end_page |-> paper.end_page]},
                         j, sha, paper_list, pos + 1, Append(paper_ids, p_id))

save_papers(rows, j, sha, paper_list, db_ok) ==
    IF db_ok THEN SavePapersLoop(rows, j, sha, paper_list, 1, <<>>)
    ELSE [returned |-> <<>>, rows |-> rows]

PipeSavePapers(j) ==
    /\ config.variant = "pipeline"
    /\ run[j].pc = "save_papers"
    /\ \E db_ok \in BOOLEAN :
         LET result == save_papers(papers, j, run[j].sha256,
                                   run[j].detected_papers, db_ok)
         IN  /\ papers' = result.rows
             /\ run' = [run EXCEPT ![j].pc = "chunks",
                                   ![j].paper_db_ids = result.returned]
    /\ Unobserved
    /\ UNCHANGED <<config, calc, job, documents, user_documents, document_chunks,
                   vectors, trace>>

\* The point of one chunk: a fresh id and the relevant papers' subjects.
PipePoint(points, j, r, chunk) ==
    LET relevant == relevant_papers(chunk, r.detected_papers)
    IN  [id |-> PointId(points, j, r.sha256, chunk.chunk_number),
         document_sha256 |-> r.sha256,
         chunk_number |-> chunk.chunk_number,
         papers |-> [i \in 1..Len(relevant) |-> relevant[i].subject]]

\* One round of the chunk loop: embed (an error leaves the loop), queue the
\* point, save the chunk's row (an error is only printed).
PipeChunk(j) ==
    /\ config.variant = "pipeline"
    /\ run[j].pc = "chunks"
    /\ IF run[j].todo = <<>>
       THEN /\ run' = [run EXCEPT ![j].pc = "upsert"]
            /\ UNCHANGED <<document_chunks, trace>>
       ELSE \E embed_ok, db_ok \in BOOLEAN :
              LET chunk == Head(run[j].todo)
                  point == PipePoint(vectors, j, run[j], chunk)
                  embedded == [run[j] EXCEPT !.did = @ \cup {"embed"}]
              IN  IF embed_ok
                  THEN /\ run' = [run EXCEPT ![j] =
                            [embedded EXCEPT !.todo = Tail(@),
                                             !.stored = Append(@, point)]]
                       /\ document_chunks' =
                            IF db_ok
                            THEN insert_chunk(document_chunks,
                                    ChunkRow(run[j].sha256,
                                             [chunk_info |-> chunk,
                                              point_id |-> point.id], {}))
                            ELSE document_chunks
                       /\ UNCHANGED trace
                  ELSE /\ PipeRaise(j, embedded, "embed_error")
                       /\ UNCHANGED document_chunks
    /\ Unobserved
    /\ UNCHANGED <<config, calc, job, documents, user_documents, papers, vectors>>

\* The batch upsert (its error is re-raised), then the source is counted as
\* successful and the job row written with status completed.
PipeUpsert(j) ==
    /\ config.variant = "pipeline"
    /\ run[j].pc = "upsert"
    /\ \E upsert_ok \in BOOLEAN :
         IF run[j].stored = <<>> \/ upsert_ok
         THEN LET r == [run[j] EXCEPT !.success_count = @ + 1,
                                      !.documents_list = Append(@, run[j].sha256)]
              IN  /\ vectors' = vectors \cup Range(run[j].stored)
                  /\ job' = PipeSuccessful(job, j, r)
                  /\ run' = [run EXCEPT ![j] = NextSource(r)]
                  /\ Logged(j, run[j].sha256, "successful", "none")
         ELSE /\ PipeRaise(j, [run[j] EXCEPT !.did = @ \cup {"upsert"}],
                           "upsert_error")
              /\ UNCHANGED <<job, vectors>>
    /\ Unobserved
    /\ UNCHANGED <<config, calc, documents, user_documents, document_chunks, papers>>

\* except Exception: the error is appended and the job marked failed.
PipeExcept(j) ==
    /\ config.variant = "pipeline"
    /\ run[j].pc = "except"
    /\ LET r == [run[j] EXCEPT !.errors_list = Append(@, run[j].exc),
                               !.pc = "finally"]
       IN  /\ job' = PipeFailed(job, j, r)
           /\ run' = [run EXCEPT ![j] = r]
    /\ Unobserved
    /\ UNCHANGED <<config, calc, documents, user_documents, document_chunks,
                   papers, vectors, trace>>

\* finally: the last write of the counters, then cleanup_directory.
PipeFinally(j) ==
    /\ config.variant = "pipeline"
    /\ \/ run[j].pc = "finally"
       \/ run[j].pc = "loop" /\ run[j].idx >= job[j].total_sources
    /\ job' = PipeFinal(job, j, run[j])
    /\ run' = [run EXCEPT ![j].pc = "done",
                          ![j].work_dir = cleanup_directory(@)]
    /\ Unobserved
    /\ UNCHANGED <<config, calc, documents, user_documents, document_chunks,
                   papers, vectors, trace>>

run_ingestion_pipeline(j) ==
    \/ PipeBegin(j)
    \/ PipeSource(j)
    \/ PipeLink(j)
    \/ PipeSaveDocument(j)
    \/ PipeSavePapers(j)
    \/ PipeChunk(j)
    \/ PipeUpsert(j)
    \/ PipeExcept(j)
    \/ PipeFinally(j)

ingest_documents_async(j) ==
    \/ AsyncBegin(j)
    \/ AsyncProcessDocument(j)
    \/ AsyncLink(j)
    \/ AsyncSaveDocument(j)
    \/ AsyncSavePapers(j)
    \/ AsyncChunk(j)
    \/ AsyncSaveChunk(j)
    \/ AsyncComplete(j)

Next ==
    \E j \in Jobs :
        \/ create_job(j)
        \/ get_job_status(j)
        \/ ingest_documents_async(j)
        \/ run_ingestion_pipeline(j)

Spec == Init /\ [][Next]_vars

\* Two ingestion tasks side by side, as two server processes on one
\* database and one vector collection run them: their store operations
\* interleave. (Inside one event loop a task never suspends: every await of
\* the pipelines is on a coroutine that only makes blocking calls.)
SpecPair == InitPair /\ [][Next]_vars

\* ------------------------------------------------ calls of pure functions
\* The chunk loop of ingest_documents_async without its stores: each chunk
\* with its primary paper id and the ids of its overlapping papers.
\* attribute_chunks as it would be if the primary were the first of the
\* overlapping papers.
attribute_chunks_first_overlap(chunks, saved_papers) ==
    [i \in 1..Len(chunks) |->
        LET ids == PaperIds(find_all_overlapping_papers(chunks[i], saved_papers))
        IN  [chunk_info |-> chunks[i] @@
                [paper_id |-> IF ids = <<>> THEN NoId ELSE ids[1]],
             paper_ids |-> ids]]

attribute_chunks(chunks, saved_papers) ==
    [i \in 1..Len(chunks) |->
        [chunk_info |-> chunks[i] @@
            [paper_id |-> find_matching_paper(chunks[i], saved_papers)],
         paper_ids |-> PaperIds(find_all_overlapping_papers(chunks[i], saved_papers))]]

Estimates == {NoneInt} \cup 1..MaxPage

\* A list of saved papers with the given page estimates; the id of a paper
\* is its position in the list.
PaperList(n, starts, ends) ==
    [i \in 1..n |-> [subject |-> "s", start_page_estimate |-> starts[i],
                     end_page_estimate |-> ends[i], id |-> <<i>>]]

PaperLists ==
    UNION {{PaperList(n, starts, ends) :
               starts \in [1..n -> Estimates], ends \in [1..n -> Estimates]}
           : n \in 0..MaxPapers}

\* Two papers that share a document of p pages: pages 1..b and b+1..p.
TwoPapers(b, p) == PaperList(2, <<1, b + 1>>, <<b, p>>)

SplitCalls ==
    [op : {"split_pdf"}, total_pages : 1..MaxPages,
     pages_per_chunk : 1..MaxPagesPerChunk, returned : {FALSE}, chunks : {<<>>}]

PaperCalls ==
    {[op |-> "papers", chunk_info |-> [page_start |-> a, page_end |-> b],
      papers |-> ps, returned |-> FALSE, overlaps |-> <<>>, primary |-> NoId]
     : a \in 1..MaxPage, b \in 1..MaxPage, ps \in PaperLists}

DocumentCalls ==
    {[op |-> "document", total_pages |-> p, papers |-> TwoPapers(b, p),
      returned |-> FALSE, attributed |-> <<>>]
     : p \in 2..MaxPages, b \in 1..MaxPages}

\* save_papers_metadata on the list the detector returned; fail_at = k: the
\* k-th INSERT fails, fail_at = Len + 1: the commit fails.
SavePapersCalls ==
    {[op |-> "save_papers", doc_sha256 |-> compute_sha256(f), papers |-> ps,
      fail_at |-> k, returned |-> FALSE, saved_papers |-> <<>>, rows |-> {}]
     : f \in Files, ps \in {<<>>, <<UnknownPaper>>, <<PaperS1, PaperS2>>},
       k \in 0..(MaxPapers + 1)}

\* validate_pdf then split_pdf on one file, as run_ingestion_pipeline calls
\* them; f0 is a well-formed PDF without pages.
ValidatedFiles == Files \cup {"f0"}
ValidateCalls ==
    [op : {"validate_split"}, file : ValidatedFiles, returned : {FALSE},
     page_count : {NoneInt}, chunks : {<<>>}]

InitCalls ==
    /\ config = [variant |-> "none", jobs |-> {}, max_sources |-> 0, files |-> {}]
    /\ InitStores
    /\ calc \in ValidateCalls \cup
               {c \in SavePapersCalls : c.fail_at <= Len(c.papers) + 1} \cup
               SplitCalls \cup {c \in PaperCalls :
                                   c.chunk_info.page_start <= c.chunk_info.page_end}
                           \cup {c \in DocumentCalls : c.papers[1].end_page_estimate
                                                        < c.total_pages}

Uncalled == UNCHANGED <<config, job, run, documents, user_documents,
                        document_chunks, papers, vectors, trace, observed>>

CallSplitPdf ==
    /\ calc.op = "split_pdf" /\ ~calc.returned
    /\ calc' = [calc EXCEPT !.returned = TRUE,
                            !.chunks = split_pdf(calc.total_pages, calc.pages_per_chunk)]
    /\ Uncalled

CallPapers ==
    /\ calc.op = "papers" /\ ~calc.returned
    /\ calc' = [calc EXCEPT
          !.returned = TRUE,
          !.overlaps = find_all_overlapping_papers(calc.chunk_info, calc.papers),
          !.primary = find_matching_paper(calc.chunk_info, calc.papers)]
    /\ Uncalled

CallDocument ==
    /\ calc.op = "document" /\ ~calc.returned
    /\ calc' = [calc EXCEPT
          !.returned = TRUE,
          !.attributed = attribute_chunks(split_pdf(calc.total_pages, PAGES_PER_CHUNK),
                                          calc.papers)]
    /\ Uncalled

CallSavePapers ==
    /\ calc.op = "save_papers" /\ ~calc.returned
    /\ LET result == save_papers_metadata(papers, "j1", calc.doc_sha256,
                                          calc.papers, calc.fail_at)
       IN  calc' = [calc EXCEPT !.returned = TRUE,
                                !.saved_papers = result.returned,
                                !.rows = result.rows]
    /\ Uncalled

\* split_pdf raises on a file the reader cannot open: no chunk list.
CallValidateSplit ==
    /\ calc.op = "validate_split" /\ ~calc.returned
    /\ calc' = [calc EXCEPT
          !.returned = TRUE,
          !.page_count = validator_validate_pdf(calc.file),
          !.chunks = IF IsCorrupt(calc.file) THEN <<>>
                     ELSE split_pdf(PageCount(calc.file), PAGES_PER_CHUNK)]
    /\ Uncalled

NextCalls ==
    CallSplitPdf \/ CallPapers \/ CallDocument \/ CallSavePapers \/ CallValidateSplit

SpecCalls == InitCalls /\ [][NextCalls]_vars

\* ------------------------------------------------------- retry policies
\* One call of a wrapped function: outcomes[k] is what the k-th attempt of
\* the underlying API call does, "ok" or the error it raises. The errors
\* stand for the messages the policies look into: "503" (503 UNAVAILABLE),
\* "429" (rate limit), "timeout" (a connection error), "invalid" (any other).
Errors == {"503", "429", "timeout", "invalid"}
AttemptOutcomes == {"ok"} \cup Errors

DEFAULT_RETRIES == 5
GEN_INITIAL_DELAY == 2
EMBED_MAX_RETRIES == 3
BACKOFF_INITIAL_DELAY == 1
BACKOFF_FACTOR == 2

\* IsTransient as it would be if every error were retried.
IsTransientAny(e) == e \in Errors

\* generate_content_with_retry: "503" in error_str or "UNAVAILABLE" in
\* error_str or "429" in error_str
IsTransient(e) == e \in {"503", "429"}

\* LastAttempt as it would be if the loop gave up one attempt early.
LastAttemptEarly(attempt, retries) == attempt >= retries - 2

\* generate_content_with_retry: attempt == retries - 1 (attempt from 0)
LastAttempt(attempt, retries) == attempt = retries - 1

\* retry_with_backoff: the messages it retries, looked up in str(e).lower()
IsRetryable(e) == e \in {"429", "timeout"}

RetryCall(site, retries, outcomes, delay) ==
    [op |-> "retry", site |-> site, retries |-> retries, outcomes |-> outcomes,
     attempt |-> 0, delay |-> delay, sleeps |-> <<>>, status |-> "running",
     error |-> "none"]

RetryCalls ==
    UNION {{RetryCall("generate_content_with_retry", n, o, GEN_INITIAL_DELAY)
               : o \in [1..n -> AttemptOutcomes]} : n \in 1..MaxRetries}
    \cup UNION {{RetryCall("retry_with_backoff", n, o, BACKOFF_INITIAL_DELAY)
               : o \in [1..(n + 1) -> AttemptOutcomes]} : n \in 1..(MaxRetries - 1)}
    \cup {RetryCall("embedding_service", 0, o, 0) : o \in [1..1 -> AttemptOutcomes]}

InitRetry ==
    /\ config = [variant |-> "none", jobs |-> {}, max_sources |-> 0, files |-> {}]
    /\ InitStores
    /\ calc \in RetryCalls

\* One iteration of the loop of generate_content_with_retry; attempt counts
\* the iterations begun. The jitter random.uniform(0, 1) added to each sleep
\* is left out of the delay recorded.
GenerateAttempt ==
    /\ calc.op = "retry" /\ calc.site = "generate_content_with_retry"
    /\ calc.status = "running"
    /\ LET attempt == calc.attempt
           outcome == calc.outcomes[attempt + 1]
           tried == [calc EXCEPT !.attempt = attempt + 1]
       IN  calc' =
             IF outcome = "ok" THEN [tried EXCEPT !.status = "returned"]
             ELSE IF IsTransient(outcome) /\ ~LastAttempt(attempt, calc.retries)
             THEN [tried EXCEPT !.sleeps = Append(@, calc.delay),
                                !.delay = @ * 2]
             ELSE [tried EXCEPT !.status = "raised", !.error = outcome]
    /\ Uncalled

\* One iteration of the wrapper of retry_with_backoff(max_retries).
BackoffAttempt ==
    /\ calc.op = "retry" /\ calc.site = "retry_with_backoff"
    /\ calc.status = "running"
    /\ LET attempt == calc.attempt
           outcome == calc.outcomes[attempt + 1]
           tried == [calc EXCEPT !.attempt = attempt + 1]
       IN  calc' =
             IF outcome = "ok" THEN [tried EXCEPT !.status = "returned"]
             ELSE IF attempt = calc.retries \/ ~IsRetryable(outcome)
             THEN [tried EXCEPT !.status = "raised", !.error = outcome]
             ELSE [tried EXCEPT !.sleeps = Append(@, calc.delay),
                                !.delay = @ * BACKOFF_FACTOR]
    /\ Uncalled

\* embed_texts of services/embedding_service.py: one embed_content call for
\* the batch, its error printed and raised again.
EmbeddingServiceCall ==
    /\ calc.op = "retry" /\ calc.site = "embedding_service"
    /\ calc.status = "running"
    /\ LET outcome == calc.outcomes[1]
           tried == [calc EXCEPT !.attempt = 1]
       IN  calc' = IF outcome = "ok" THEN [tried EXCEPT !.status = "returned"]
                   ELSE [tried EXCEPT !.status = "raised", !.error = outcome]
    /\ Uncalled

NextRetry == GenerateAttempt \/ BackoffAttempt \/ EmbeddingServiceCall

SpecRetry == InitRetry /\ [][NextRetry]_vars

\* ------------------------------------------------- text_splitter.py
\* A text is a sequence of characters: a letter, the sentence mark (one of
\* . ! ?), the blank and the newline.
Chars == {"a", ".", " ", "\n"}
Texts == UNION {[1..n -> Chars] : n \in 0..MaxLen}
IsSpace(c) == c \in {" ", "\n"}

\* str.strip()
RECURSIVE lstrip(_)
lstrip(text) ==
    IF text = <<>> THEN <<>>
    ELSE IF IsSpace(Head(text)) THEN lstrip(Tail(text)) ELSE text

RECURSIVE rstrip(_)
rstrip(text) ==
    IF text = <<>> THEN <<>>
    ELSE IF IsSpace(text[Len(text)]) THEN rstrip(SubSeq(text, 1, Len(text) - 1))
         ELSE text

strip(text) == rstrip(lstrip(text))

\* str.split(): the maximal runs of characters other than whitespace.
RECURSIVE SplitWords(_, _, _)
SplitWords(text, word, words) ==
    IF text = <<>>
    THEN IF word = <<>> THEN words ELSE Append(words, word)
    ELSE IF IsSpace(Head(text))
         THEN SplitWords(Tail(text), <<>>,
                         IF word = <<>> THEN words ELSE Append(words, word))
         ELSE SplitWords(Tail(text), Append(word, Head(text)), words)

split(text) == SplitWords(text, <<>>, <<>>)

\* ''.join(parts) and ' '.join(words)
RECURSIVE join(_)
join(parts) == IF parts = <<>> THEN <<>> ELSE Head(parts) \o join(Tail(parts))

RECURSIVE join_blank(_)
join_blank(words) ==
    IF words = <<>> THEN <<>>
    ELSE IF Len(words) = 1 THEN words[1]
    ELSE words[1] \o <<" ">> \o join_blank(Tail(words))

\* seq[-n:]; seq[-0:] is the whole sequence.
LastN(seq, n) ==
    IF n = 0 \/ n >= Len(seq) THEN seq
    ELSE SubSeq(seq, Len(seq) - n + 1, Len(seq))

estimate_tokens(text) == (Len(split(text)) * 13) \div 10

\* The length of the leading run of characters of text that are in set.
RECURSIVE RunLen(_, _)
RunLen(text, set) ==
    IF text = <<>> \/ Head(text) \notin set THEN 0
    ELSE 1 + RunLen(Tail(text), set)

\* The length of the match of [.!?]\s+|\n{2,} at the head of text, 0 if none.
MatchLen(text) ==
    IF Head(text) = "." /\ RunLen(Tail(text), {" ", "\n"}) >= 1
    THEN 1 + RunLen(Tail(text), {" ", "\n"})
    ELSE IF RunLen(text, {"\n"}) >= 2 THEN RunLen(text, {"\n"}) ELSE 0

\* re.split with a capturing group: sentence, separator, sentence, ...
RECURSIVE ReSplit(_, _, _)
ReSplit(text, sentence, parts) ==
    IF text = <<>> THEN Append(parts, sentence)
    ELSE IF MatchLen(text) > 0
         THEN ReSplit(SubSeq(text, MatchLen(text) + 1, Len(text)), <<>>,
                      parts \o <<sentence, SubSeq(text, 1, MatchLen(text))>>)
         ELSE ReSplit(Tail(text), Append(sentence, Head(text)), parts)

re_split(text) == ReSplit(text, <<>>, <<>>)

\* The word loop over a sentence larger than max_tokens.
RECURSIVE WordLoop(_, _, _, _, _)
WordLoop(words, word_chunk, word_tokens, chunks, p) ==
    IF words = <<>>
    THEN IF word_chunk # <<>> THEN Append(chunks, join_blank(word_chunk))
         ELSE chunks
    ELSE LET word == Head(words)
             word_token_estimate == estimate_tokens(word)
         IN  IF word_tokens + word_token_estimate > p.target_tokens
                /\ word_chunk # <<>>
             THEN LET overlap_words ==
                          IF Len(word_chunk) > p.overlap_tokens
                          THEN LastN(word_chunk, p.overlap_tokens)
                          ELSE word_chunk
                      next_chunk == Append(overlap_words, word)
                  IN  WordLoop(Tail(words), next_chunk,
                               estimate_tokens(join_blank(next_chunk)),
                               Append(chunks, join_blank(word_chunk)), p)
             ELSE WordLoop(Tail(words), Append(word_chunk, word),
                           word_tokens + word_token_estimate, chunks, p)

\* The current chunk is closed and the next one starts with the last
\* `keep` sentences of it.
CloseChunk(st, keep) ==
    LET overlap_text == join(LastN(st.current_chunk, keep))
    IN  [chunks |-> Append(st.chunks, strip(join(st.current_chunk))),
         current_chunk |-> IF overlap_text # <<>> THEN <<overlap_text>> ELSE <<>>,
         current_tokens |-> estimate_tokens(overlap_text)]

\* The sentence loop; i is the position of the sentence in the split.
RECURSIVE SentenceLoop(_, _, _, _)
SentenceLoop(sentences, i, st, p) ==
    IF i > Len(sentences) THEN st
    ELSE LET sentence == sentences[i]
             separator == IF i + 1 <= Len(sentences) THEN sentences[i + 1]
                          ELSE <<>>
             sentence_tokens == estimate_tokens(sentence)
         IN  IF sentence_tokens > p.max_tokens
             THEN SentenceLoop(sentences, i + 2,
                     [st EXCEPT !.chunks = WordLoop(split(sentence), <<>>, 0,
                                                    st.chunks, p)], p)
             ELSE LET saved == IF st.current_tokens + sentence_tokens > p.max_tokens
                                  /\ st.current_chunk # <<>>
                               THEN CloseChunk(st, 3) ELSE st
                      added == [saved EXCEPT
                                  !.current_chunk = Append(@, sentence \o separator),
                                  !.current_tokens = @ + sentence_tokens]
                  IN  SentenceLoop(sentences, i + 2,
                         IF added.current_tokens >= p.target_tokens
                            /\ added.current_tokens <= p.max_tokens
                         THEN CloseChunk(added, 2) ELSE added, p)

\* The remaining text becomes a chunk of its own or joins the last chunk.
AddRemaining(st, p) ==
    LET remaining_text == strip(join(st.current_chunk))
    IN  IF st.current_chunk = <<>> THEN st.chunks
        ELSE IF estimate_tokens(remaining_text) >= p.min_tokens \/ st.chunks = <<>>
             THEN Append(st.chunks, remaining_text)
             ELSE [st.chunks EXCEPT ![Len(st.chunks)] = @ \o <<" ">> \o remaining_text]

\* The result as it would be without the filter of the return statement.
nonblank_chunks_all(chunks) == chunks

\* [chunk for chunk in chunks if chunk.strip()]
nonblank_chunks(chunks) == SelectSeq(chunks, LAMBDA chunk : strip(chunk) # <<>>)

split_text_by_tokens(text, p) ==
    IF text = <<>> \/ strip(text) = <<>> THEN <<>>
    ELSE nonblank_chunks(AddRemaining(
             SentenceLoop(re_split(text), 1,
                          [chunks |-> <<>>, current_chunk |-> <<>>,
                           current_tokens |-> 0], p), p))

\* The token arguments of a call, kept in the order the defaults have:
\* min_tokens <= target_tokens <= max_tokens.
TokenArgs ==
    {p \in [target_tokens : 1..MaxTokens, min_tokens : 0..MaxTokens,
            max_tokens : 1..MaxTokens, overlap_tokens : 0..1] :
        p.min_tokens <= p.target_tokens /\ p.target_tokens <= p.max_tokens}

TextCalls ==
    [op : {"split_text"}, text : Texts, args : TokenArgs,
     returned : {FALSE}, chunks : {<<>>}]

InitText ==
    /\ config = [variant |-> "none", jobs |-> {}, max_sources |-> 0, files |-> {}]
    /\ InitStores
    /\ calc \in TextCalls

CallSplitText ==
    /\ calc.op = "split_text" /\ ~calc.returned
    /\ calc' = [calc EXCEPT !.returned = TRUE,
                            !.chunks = split_text_by_tokens(calc.text, calc.args)]
    /\ Uncalled

NextText == CallSplitText

SpecText == InitText /\ [][NextText]_vars

\* Calls on the texts of up to MaxSentenceLen characters made of a letter,
\* the sentence mark and the blank: long enough for a short sentence
\* followed by a sentence of more than max_tokens.
SentenceTexts == UNION {[1..n -> {"a", ".", " "}] : n \in 0..MaxSentenceLen}

InitWords ==
    /\ config = [variant |-> "none", jobs |-> {}, max_sources |-> 0, files |-> {}]
    /\ InitStores
    /\ calc \in [op : {"split_text"}, text : SentenceTexts, args : TokenArgs,
                 returned : {FALSE}, chunks : {<<>>}]

SpecWords == InitWords /\ [][NextText]_vars

\* ------------------------------------------------- embedder.py: rate_limit
\* Time is counted in whole seconds. calls is RATE_LIMIT_CALLS; began is
\* history: the times at which the wrapped function was entered.
LimiterCalls ==
    [op : {"rate_limit"}, max_calls : 1..MaxCalls, period : 2..MaxPeriod,
     now : {0}, calls : {<<>>}, began : {<<>>}]

InitLimit ==
    /\ config = [variant |-> "none", jobs |-> {}, max_sources |-> 0, files |-> {}]
    /\ InitStores
    /\ calc \in LimiterCalls

\* Time passes between two calls.
LimiterTick ==
    /\ calc.op = "rate_limit"
    /\ calc.now < MaxTime
    /\ calc' = [calc EXCEPT !.now = @ + 1]
    /\ Uncalled

\* One call of the wrapper: the record is pruned, a full record makes the
\* caller sleep until its oldest entry is a period old and is then cleared,
\* the call is recorded and the wrapped function entered. time.sleep may
\* return late.
LimitedCall ==
    /\ calc.op = "rate_limit"
    /\ Len(calc.began) < MaxInvocations
    /\ LET now == calc.now
           recent == SelectSeq(calc.calls, LAMBDA call_time : now - call_time < calc.period)
           full == Len(recent) >= calc.max_calls
           sleep_time == IF full THEN calc.period - (now - recent[1]) ELSE 0
       IN  \E late \in 0..1 :
             LET slept == full /\ sleep_time > 0
                 entered == IF slept THEN now + sleep_time + late ELSE now
             IN  /\ (~slept) => late = 0
                 /\ entered <= MaxTime
                 /\ calc' = [calc EXCEPT
                       !.now = entered,
                       !.calls = Append(IF slept THEN <<>> ELSE recent, entered),
                       !.began = Append(@, entered)]
    /\ Uncalled

NextLimit == LimiterTick \/ LimitedCall

SpecLimit == InitLimit /\ [][NextLimit]_vars

\* --------------------------------------------------------- properties
Last(seq) == seq[Len(seq)]
JobEntries(j) == SelectSeq(trace, LAMBDA e : e.job = j)
Finished(j) == Len(JobEntries(j))
Returned(j) == run[j].pc = "done"
Outcomes(j) == {e.outcome : e \in Range(JobEntries(j))}
RowCount(h) ==
    BagCardinality(RowsIn(documents, {r \in BagToSet(documents) : r.sha256_hash = h}))
Edge(j, h) == [user_id |-> UserOf(j), document_sha256 |-> h]

PollerSeesBoundedCounters ==
    /\ observed.processed <= observed.total_sources
    /\ observed.processed >= 0
    /\ observed.successful >= 0
    /\ observed.failed >= 0
    /\ observed.duplicates >= 0

\* A poll in the middle of a run, between two sources.
PollMidRun ==
    /\ observed.status = "processing"
    /\ observed.total_sources = 3
    /\ observed.processed = 2
    /\ observed.duplicates = 1
    /\ observed.failed = 1

\* C3: a job whose status is completed has had every source attempted:
\* processed = total_sources, in the job record and in what a poll reads.
CompletedAfterAllSources ==
    /\ \A j \in Jobs :
         job[j].status = "completed" => job[j].processed = job[j].total_sources
    /\ observed.status = "completed" => observed.processed = observed.total_sources

\* C4: a per-source failure (download, corrupt file, embedding, upsert,
\* metadata store) is recorded in errors and does not stop the job: when the
\* pipeline has returned, unless the collection could not be set up, every
\* source was attempted, each source that did not succeed left an error, and
\* the status is completed.
Unsuccessful(j) ==
    Len(SelectSeq(JobEntries(j),
                  LAMBDA e : e.outcome \notin {"successful", "duplicate"}))

SourceFailureKeepsJobGoing ==
    \A j \in Jobs :
        (Returned(j) /\ run[j].exc # "Job error") =>
            /\ Finished(j) = job[j].total_sources
            /\ Len(job[j].errors) = Unsuccessful(j)
            /\ job[j].status = "completed"

\* C5: when the pipeline function has returned, whatever the outcomes of the
\* sources, the status is completed or failed.
ReturnedJobIsTerminal ==
    \A j \in Jobs : Returned(j) => job[j].status \in {"completed", "failed"}

\* C6: the status only moves from processing to completed or to failed, and
\* a completed or failed job keeps its status.
OnlyTerminalTransitions ==
    [][\A j \in Jobs :
          (job[j].status # "absent" /\ job'[j].status # job[j].status) =>
              /\ job[j].status = "processing"
              /\ job'[j].status \in {"completed", "failed"}]_vars

\* C7: three sources, the second fails its download, the first and third are
\* new valid documents: the job ends with processed 3, successful 2,
\* failed 1, duplicates 0, one error, status completed.
SecondDownloadFailed(j) ==
    LET es == JobEntries(j)
    IN  /\ job[j].total_sources = 3
        /\ Len(es) = 3
        /\ es[1].outcome = "successful"
        /\ es[2].outcome = "failed" /\ es[2].error = "Download failed"
        /\ es[3].outcome = "successful"
        /\ es[1].sha256 # es[3].sha256

ThreeSourcesOneDownloadFailure ==
    \A j \in Jobs :
        (Returned(j) /\ SecondDownloadFailed(j)) =>
            /\ job[j].processed = 3
            /\ job[j].successful = 2
            /\ job[j].failed = 1
            /\ job[j].duplicates = 0
            /\ job[j].status = "completed"
            /\ Len(job[j].errors) = 1

\* C8: a source that ends as a download failure, a corrupt file, a
\* duplicate, a document without usable chunks or a success adds one to
\* processed and one to exactly one of successful, failed, duplicates.
OneOutcomeCounterPerSource ==
    [][\A j \in Jobs :
          (/\ Len(trace') = Len(trace) + 1
           /\ Last(trace').job = j
           /\ Last(trace').outcome # "aborted") =>
              /\ job'[j].processed = job[j].processed + 1
              /\ (job'[j].successful - job[j].successful)
                 + (job'[j].failed - job[j].failed)
                 + (job'[j].duplicates - job[j].duplicates) = 1]_vars

\* C9: a source whose hash the metadata store already knows is linked and
\* recorded as a duplicate without having been split, extracted, embedded
\* or upserted.
KnownHashSkipsProcessing ==
    /\ \A j \in Jobs : run[j].pc = "link" => run[j].did = {}
    /\ \A e \in Range(trace) :
          e.outcome = "duplicate" => BagIn(Edge(e.job, e.sha256), user_documents)

\* C10: once the ingestions have returned, each content hash that an
\* ingestion reported as stored (successful or duplicate) has exactly one
\* row in documents and exactly one link for the user of that ingestion, and
\* every such ingestion of it after the first was reported as a duplicate.
Stored(e) == e.outcome \in {"successful", "duplicate"}

OneDocumentPerContent ==
    (\A j \in config.jobs : Returned(j)) =>
        \A i \in 1..Len(trace) :
            LET h == trace[i].sha256
            IN  Stored(trace[i]) =>
                  /\ RowCount(h) = 1
                  /\ CopiesIn(Edge(trace[i].job, h), user_documents) = 1
                  /\ (\E k \in 1..(i - 1) : trace[k].sha256 = h /\ Stored(trace[k]))
                        => trace[i].outcome = "duplicate"

\* C14: for p >= 1 pages and k >= 1 pages per chunk, split_pdf returns
\* ceil(p/k) chunks numbered 1..ceil(p/k) in page order, whose page ranges
\* partition 1..p without gap or overlap, every chunk but possibly the last
\* holding exactly k pages; for p <= k it returns the single chunk 1..p.
CeilDiv(p, k) == (p + k - 1) \div k

SplitPartitionsPages ==
    (calc.op = "split_pdf" /\ calc.returned) =>
        LET p == calc.total_pages
            k == calc.pages_per_chunk
            chunks == calc.chunks
            n == CeilDiv(p, k)
        IN  /\ Len(chunks) = n
            /\ \A i \in 1..n :
                 /\ chunks[i].chunk_number = i
                 /\ chunks[i].page_start = (IF i = 1 THEN 1 ELSE chunks[i - 1].page_end + 1)
                 /\ chunks[i].page_start <= chunks[i].page_end
                 /\ i < n => chunks[i].page_end - chunks[i].page_start + 1 = k
                 /\ chunks[i].page_end - chunks[i].page_start + 1 <= k
            /\ chunks[n].page_end = p
            /\ p <= k => chunks = <<[chunk_number |-> 1, page_start |-> 1, page_end |-> p]>>

\* 17 pages in chunks of 8: two full chunks and a last chunk of one page.
SplitSeventeenPages ==
    /\ calc.op = "split_pdf" /\ calc.returned
    /\ calc.total_pages = 17 /\ calc.pages_per_chunk = 8
    /\ Len(calc.chunks) = 3
    /\ calc.chunks[3].page_start = 17 /\ calc.chunks[3].page_end = 17

PapersCalled == calc.op = "papers" /\ calc.returned

\* The overlap length of the claim: the missing start of a paper is taken
\* as 0, its missing end as 9999.
OverlapLen(chunk_info, p) ==
    LET paperStart == IF p.start_page_estimate = NoneInt THEN 0 ELSE p.start_page_estimate
        paperEnd == IF p.end_page_estimate = NoneInt THEN 9999 ELSE p.end_page_estimate
    IN  Min(chunk_info.page_end, paperEnd) - Max(chunk_info.page_start, paperStart) + 1

\* C16: with zero papers, find_all_overlapping_papers returns the empty
\* list and find_matching_paper returns no primary, whatever the chunk.
NoPapersNoAttribution ==
    (PapersCalled /\ calc.papers = <<>>) =>
        calc.overlaps = <<>> /\ calc.primary = NoId

NoPapersCalled ==
    /\ PapersCalled /\ calc.papers = <<>>
    /\ calc.chunk_info = [page_start |-> 2, page_end |-> 3]

\* C17: with exactly one paper, that paper is the only overlap and the
\* primary of the chunk, whatever the chunk's pages and the paper's page
\* estimates (missing or outside the chunk).
SinglePaperAlwaysAttributed ==
    (PapersCalled /\ Len(calc.papers) = 1) =>
        calc.overlaps = calc.papers /\ calc.primary = calc.papers[1].id

\* One paper on pages 3..4, a chunk on pages 1..2.
SinglePaperOutsideChunk ==
    /\ PapersCalled /\ Len(calc.papers) = 1
    /\ calc.chunk_info = [page_start |-> 1, page_end |-> 2]
    /\ calc.papers[1].start_page_estimate = 3
    /\ calc.papers[1].end_page_estimate = 4
    /\ calc.overlaps = calc.papers

\* C18: with two or more papers, the overlap list is the input list reduced,
\* in its order, to the papers whose overlap length with the chunk is >= 1.
OverlapsByLength ==
    (PapersCalled /\ Len(calc.papers) >= 2) =>
        calc.overlaps =
            SelectSeq(calc.papers, LAMBDA p : OverlapLen(calc.chunk_info, p) >= 1)

\* Two papers: the first, without an end page, overlaps the chunk on one
\* page; the second lies before the chunk.
OverlapOnOnePage ==
    /\ PapersCalled /\ Len(calc.papers) = 2
    /\ calc.chunk_info = [page_start |-> 3, page_end |-> 3]
    /\ calc.papers[1].start_page_estimate = 3
    /\ calc.papers[1].end_page_estimate = NoneInt
    /\ calc.papers[2].end_page_estimate = 2
    /\ calc.overlaps = <<calc.papers[1]>>

\* C19: with two or more papers, the primary is the overlapping paper of
\* largest overlap length, the first of them in the list when several tie.
PrimaryByLargestOverlap ==
    (PapersCalled /\ Len(calc.papers) >= 2) =>
        LET len(i) == OverlapLen(calc.chunk_info, calc.papers[i])
            over == {i \in 1..Len(calc.papers) : len(i) >= 1}
            largest == {i \in over : \A m \in over : len(i) >= len(m)}
        IN  IF over = {} THEN calc.primary = NoId
            ELSE calc.primary =
                    calc.papers[CHOOSE i \in largest : \A m \in largest : i <= m].id

\* Two papers that overlap the chunk on two pages each: the first is primary.
PrimaryTieKeepsFirst ==
    /\ PapersCalled /\ Len(calc.papers) = 2
    /\ OverlapLen(calc.chunk_info, calc.papers[1]) = 2
    /\ OverlapLen(calc.chunk_info, calc.papers[2]) = 2
    /\ calc.primary = calc.papers[1].id

\* C20: a PDF of 20 pages with 8 pages per chunk and two papers on pages
\* 1-10 and 11-20 gives the chunks 1-8, 9-16 and 17-20; chunk 1 overlaps
\* paper 1 only (primary paper 1), chunk 2 overlaps both (primary paper 2,
\* 6 pages against 2), chunk 3 overlaps paper 2 only (primary paper 2).
TwentyPagesTwoPapers ==
    /\ calc.op = "document" /\ calc.returned
    /\ calc.total_pages = 20
    /\ calc.papers = TwoPapers(10, 20)

TwentyPagesAttribution ==
    TwentyPagesTwoPapers =>
        LET a == calc.attributed
            pages(i) == <<a[i].chunk_info.page_start, a[i].chunk_info.page_end>>
        IN  /\ Len(a) = 3
            /\ pages(1) = <<1, 8>> /\ pages(2) = <<9, 16>> /\ pages(3) = <<17, 20>>
            /\ a[1].paper_ids = << <<1>> >> /\ a[1].chunk_info.paper_id = <<1>>
            /\ a[2].paper_ids = << <<1>>, <<2>> >> /\ a[2].chunk_info.paper_id = <<2>>
            /\ a[3].paper_ids = << <<2>> >> /\ a[3].chunk_info.paper_id = <<2>>

\* That document has been split and attributed, the second chunk to paper 2.
TwentyPagesAttributed ==
    /\ TwentyPagesTwoPapers
    /\ OverlapLen(calc.attributed[2].chunk_info, calc.papers[1]) = 2
    /\ OverlapLen(calc.attributed[2].chunk_info, calc.papers[2]) = 6

\* C13: a Document is immutable after creation except for its status: no
\* step, a save of an already stored hash included, changes the
\* original_filename, total_pages, upload_source or source_url of a stored row.
SameDocument(r, q) ==
    /\ q.sha256_hash = r.sha256_hash
    /\ q.original_filename = r.original_filename
    /\ q.total_pages = r.total_pages
    /\ q.upload_source = r.upload_source
    /\ q.source_url = r.source_url

DocumentImmutableButStatus ==
    [][\A r \in BagToSet(documents) :
         \E q \in BagToSet(documents') : SameDocument(r, q)]_vars

\* A document stored from a URL has been saved again from an upload of the
\* same content (the duplicate check had failed and read as "new").
DocumentSavedAgain ==
    /\ run["j1"].pc = "save_papers"
    /\ run["j1"].source.type = "file"
    /\ \E r \in BagToSet(documents) :
         /\ r.sha256_hash = run["j1"].sha256
         /\ r.upload_source = "url"
         /\ r.original_filename # OriginalFilename(run["j1"].source)

\* C15: a source whose PDF is structurally invalid is a per-source failure:
\* when the pipeline has returned, each such source has the outcome failed,
\* is counted in failed, has its error recorded, and has neither a Document
\* row nor a Chunk row nor a vector.
CorruptEntry(e) ==
    \/ e.sha256 = compute_sha256("fx")
    \/ e.error = "Invalid or corrupted PDF"

CorruptSourceFailsAlone ==
    \A j \in Jobs : Returned(j) =>
        LET corrupt == SelectSeq(JobEntries(j), CorruptEntry)
        IN  /\ \A e \in Range(corrupt) : e.outcome = "failed"
            /\ job[j].failed >= Len(corrupt)
            /\ Len(job[j].errors) >= Len(corrupt)
            /\ ~HasDocument(documents, compute_sha256("fx"))
            /\ \A c \in BagToSet(document_chunks) :
                  c.document_sha256 # compute_sha256("fx")
            /\ \A v \in vectors : v.document_sha256 # compute_sha256("fx")

\* C11: once a source has been ingested successfully, ingesting the same
\* content again leaves the job-independent state of that content as it
\* was (its Document row, Chunk rows, Paper rows and vectors), and the
\* outcome the later ingestion reports for it is duplicate.
Hashes == {compute_sha256(f) : f \in Files}

ContentState(h) ==
    [documents |-> RowsIn(documents, {r \in BagToSet(documents) : r.sha256_hash = h}),
     chunks |-> RowsIn(document_chunks,
                       {r \in BagToSet(document_chunks) : r.document_sha256 = h}),
     papers |-> {r \in papers : r.document_sha256 = h},
     vectors |-> {v \in vectors : v.document_sha256 = h}]

Ingested(h) == \E e \in Range(trace) : e.sha256 = h /\ e.outcome = "successful"

SecondIngestionChangesNothing ==
    [][\A h \in Hashes : Ingested(h) =>
         /\ ContentState(h)' = ContentState(h)
         /\ (Len(trace') > Len(trace) /\ Last(trace').sha256 = h
                /\ Stored(Last(trace')))
               => Last(trace').outcome = "duplicate"]_vars

\* C12: when two jobs ingest the same content and both have passed the
\* duplicate check before either has saved the Document, then once both
\* have returned there is exactly one Document row for the hash, at most
\* one Chunk row for each (document_sha256, chunk_number), and no Paper row
\* is stored twice. (No statement of the pipelines can fail on a conflict:
\* each INSERT either carries an ON CONFLICT clause or meets no constraint.)
BothPastDuplicateCheck(h) ==
    /\ Cardinality(config.jobs) = 2
    /\ \A j \in config.jobs : h \in run[j].missed

SamePaperRow(p, q) == [p EXCEPT !.id = q.id] = q

StoredOnce ==
    /\ \A h \in Hashes : RowCount(h) <= 1
    /\ \A c \in BagToSet(document_chunks) :
          /\ CopiesIn(c, document_chunks) = 1
          /\ \A d \in BagToSet(document_chunks) :
                SameChunk(d, c.document_sha256, c.chunk_number) => d = c
    /\ \A p, q \in papers : SamePaperRow(p, q) => p = q

RacingJobsStoreOnce ==
    (\A j \in config.jobs : Returned(j)) =>
        \A h \in Hashes :
            BothPastDuplicateCheck(h) =>
                /\ StoredOnce
                /\ HasDocument(documents, h) => RowCount(h) = 1

\* C21: when a call under a retry policy fails with an error that is not
\* transient for the policy, the error is raised at once: the failing first
\* call is the only attempt and nothing is slept; at any attempt, such an
\* error ends the call without a further attempt.
Wrapped == calc.op = "retry" /\ calc.site # "embedding_service"

\* The errors each policy names as transient.
TransientFor(site, e) ==
    IF site = "generate_content_with_retry" THEN e \in {"503", "429"}
    ELSE e \in {"429", "timeout"}

FailedAt(k) ==
    /\ Wrapped
    /\ calc.attempt >= k
    /\ calc.outcomes[k] \in Errors
    /\ ~TransientFor(calc.site, calc.outcomes[k])

GenerateEnded ==
    /\ calc.op = "retry" /\ calc.site = "generate_content_with_retry"
    /\ calc.status # "running"

AllTransient ==
    \A k \in 1..calc.retries : IsTransient(calc.outcomes[k])

RetryBoundedAndTerminates ==
    /\ (calc.op = "retry" /\ calc.site = "generate_content_with_retry") =>
          /\ calc.attempt <= calc.retries
          /\ calc.status = "running" => calc.attempt < calc.retries
    /\ GenerateEnded =>
          /\ AllTransient =>
                /\ calc.attempt = calc.retries
                /\ calc.status = "raised"
                /\ calc.error = calc.outcomes[calc.retries]
          /\ calc.status = "returned" =>
                /\ calc.outcomes[calc.attempt] = "ok"
                /\ \A k \in 1..(calc.attempt - 1) : IsTransient(calc.outcomes[k])

\* The default of five attempts has been used up on transient errors.
RetriesExhausted ==
    /\ GenerateEnded /\ AllTransient
    /\ calc.retries = DEFAULT_RETRIES
    /\ calc.attempt = DEFAULT_RETRIES

\* C23: a transient failure (503, UNAVAILABLE, 429) of an embed call of the
\* pipelines is retried before an error reaches the pipeline: embed_texts
\* never raises such an error after a single attempt.
EmbedCall ==
    /\ calc.op = "retry"
    /\ \/ calc.site = "embedding_service"
       \/ calc.site = "retry_with_backoff" /\ calc.retries = EMBED_MAX_RETRIES

EmbedTransientRetried ==
    (EmbedCall /\ calc.status = "raised" /\ IsTransient(calc.error))
        => calc.attempt > 1

InChunkStage(j) == run[j].pc \in {"chunks", "save_chunks", "upsert"}

\* The points of the source job j is working on, as the collection holds
\* them after the step (successful_chunks / points_to_upsert).
SourceVectors(j) ==
    IF config.variant = "async"
    THEN {v \in vectors' : \E i \in 1..Len(run[j].stored) :
                              run[j].stored[i].point_id = v.id}
    ELSE vectors' \cap Range(run[j].stored)

SuccessfulIffChunkStored ==
    [][\A j \in Jobs :
         (/\ Len(trace') = Len(trace) + 1
          /\ Last(trace').job = j
          /\ InChunkStage(j))
            => (Last(trace').outcome = "successful" <=> SourceVectors(j) # {})]_vars

\* C26: a chunk whose extracted text is empty or shorter than the minimum
\* length is dropped: once the texts of a document are extracted, the
\* chunks that go on to paper detection, embedding, upsert and chunk rows
\* (extracted_chunks) all have a text of at least the minimum length.
ShortChunksDropped ==
    \A j \in Jobs :
        "extract" \in run[j].did =>
            \A i \in 1..Len(run[j].todo) : run[j].todo[i].text_len >= MIN_TEXT_LEN

\* C27: no failure is silently dropped: when a source ends reported as
\* successful although a chunk row or a paper row of it could not be
\* persisted, that step (the only one of the source that writes the job's
\* counters) increments failed or appends to errors.
StoredPointIds(j) ==
    IF config.variant = "async"
    THEN {run[j].stored[i].point_id : i \in 1..Len(run[j].stored)}
    ELSE {run[j].stored[i].id : i \in 1..Len(run[j].stored)}

ChunkRowMissing(j) ==
    \E id \in StoredPointIds(j) :
        \A r \in BagToSet(document_chunks) : r.qdrant_point_id # id

PaperRowMissing(j) ==
    /\ run[j].detected_papers # <<>>
    /\ IF config.variant = "async"
       THEN \E i \in 1..Len(run[j].detected_papers) :
               \A r \in papers : r.id # run[j].detected_papers[i].id
       ELSE run[j].paper_db_ids = <<>>

FailureRecorded(j) ==
    \/ job'[j].failed > job[j].failed
    \/ Len(job'[j].errors) > Len(job[j].errors)

NoFailureSilentlyDropped ==
    [][\A j \in Jobs :
         (/\ Len(trace') = Len(trace) + 1
          /\ Last(trace').job = j
          /\ Last(trace').outcome = "successful"
          /\ ChunkRowMissing(j) \/ PaperRowMissing(j))
            => FailureRecorded(j)]_vars

\* C28: a paper carries an id only after it was persisted: when
\* save_papers_metadata has returned, normally or after a database error,
\* every id in the list it returned is the id of a committed row of papers.
IdsArePersisted ==
    (calc.op = "save_papers" /\ calc.returned) =>
        \A i \in 1..Len(calc.saved_papers) :
            calc.saved_papers[i].id # NoId =>
                \E r \in calc.rows : r.id = calc.saved_papers[i].id

\* C29: when paper detection yields zero papers for a document, every
\* stored chunk of the document is attributed to a single "Unknown"
\* placeholder paper whose page range covers the full document.
ZeroPapersDetected(j) ==
    /\ InChunkStage(j)
    /\ PapersIn(run[j].source.value) = <<>>

\* The papers the stored chunk i of job j was attributed to, by subject.
AttributedSubjects(j, i) ==
    IF config.variant = "async"
    THEN LET all_overlaps == find_all_overlapping_papers(
                                 run[j].stored[i].chunk_info,
                                 run[j].detected_papers)
         IN  [k \in 1..Len(all_overlaps) |-> all_overlaps[k].subject]
    ELSE run[j].stored[i].papers

CoversDocument(j) ==
    \A k \in 1..Len(run[j].detected_papers) :
        /\ PStart(run[j].detected_papers[k]) <= 1
        /\ PEnd(run[j].detected_papers[k]) >= run[j].total_pages

ZeroPapersUnknownPlaceholder ==
    \A j \in config.jobs :
        ZeroPapersDetected(j) =>
            \A i \in 1..Len(run[j].stored) :
                /\ AttributedSubjects(j, i) = <<"Unknown Subject">>
                /\ CoversDocument(j)

\* C30: split_text_by_tokens never returns an empty or whitespace-only
\* segment, whatever the text; for an empty or whitespace-only text it
\* returns the empty list.
SplitTextReturned == calc.op = "split_text" /\ calc.returned

NoBlankSegment ==
    SplitTextReturned =>
        /\ \A i \in 1..Len(calc.chunks) :
              \E k \in 1..Len(calc.chunks[i]) : ~IsSpace(calc.chunks[i][k])
        /\ (\A k \in 1..Len(calc.text) : IsSpace(calc.text[k])) => calc.chunks = <<>>

\* A call whose chunk list held a blank chunk before the return statement.
BlankSegmentFiltered ==
    /\ SplitTextReturned
    /\ calc.chunks # <<>>
    /\ \E k \in 1..Len(calc.text) : ~IsSpace(calc.text[k])
    /\ Len(calc.chunks) < Len(AddRemaining(
             SentenceLoop(re_split(calc.text), 1,
                          [chunks |-> <<>>, current_chunk |-> <<>>,
                           current_tokens |-> 0], calc.args), calc.args))

\* C31: the segments split_text_by_tokens returns, taken in order, hold the
\* words of the text in the text's order: every word of the text appears in
\* some segment, and the word sequence of the text is a subsequence of the
\* concatenated word sequences of the segments (which may repeat words as
\* overlap), also when a sentence of more than max_tokens is split by words.
\* Words are compared without their sentence marks.
LetterWords(text) ==
    SelectSeq([i \in 1..Len(split(text)) |->
                  SelectSeq(split(text)[i], LAMBDA c : c # ".")],
              LAMBDA word : word # <<>>)

RECURSIVE SegmentWords(_)
SegmentWords(chunks) ==
    IF chunks = <<>> THEN <<>>
    ELSE LetterWords(Head(chunks)) \o SegmentWords(Tail(chunks))

RECURSIVE IsSubsequence(_, _)
IsSubsequence(words, within) ==
    IF words = <<>> THEN TRUE
    ELSE IF within = <<>> THEN FALSE
    ELSE IF Head(words) = Head(within)
         THEN IsSubsequence(Tail(words), Tail(within))
         ELSE IsSubsequence(words, Tail(within))

SegmentsKeepWordOrder ==
    SplitTextReturned =>
        IsSubsequence(LetterWords(calc.text), SegmentWords(calc.chunks))

\* C32: with the rate_limit decorator, no more than max_calls calls of the
\* wrapped function begin within any window of period seconds, also right
\* after the limiter has slept and cleared its record.
BeganWithin(from) ==
    {k \in DOMAIN calc.began :
        from <= calc.began[k] /\ calc.began[k] < from + calc.period}

SlidingWindowRespected ==
    calc.op = "rate_limit" =>
        \A i \in DOMAIN calc.began :
            Cardinality(BeganWithin(calc.began[i])) <= calc.max_calls

\* C33: after each source of a job has finished, in both pipelines, the
\* job's counters satisfy processed = successful + failed and
\* duplicates <= successful.
CountersAddUp ==
    \A j \in config.jobs :
        (run[j].pc = "loop" /\ Finished(j) > 0) =>
            /\ job[j].processed = job[j].successful + job[j].failed
            /\ job[j].duplicates <= job[j].successful

\* C34: when a source with a new document ends failed (an embedding or
\* upsert error, or no chunk stored), no Document row for its content hash
\* remains, so that a later ingestion of the same bytes is not taken for a
\* duplicate: at the step that ends such a source, the documents table has
\* no row for the hash.
EndsFailed(j) ==
    /\ Len(trace') = Len(trace) + 1
    /\ Last(trace').job = j
    /\ Last(trace').outcome \in {"failed", "aborted"}
    /\ InChunkStage(j)

FailedLeavesNoDocument ==
    [][\A j \in Jobs :
         EndsFailed(j) => ~HasDocument(documents', run[j].sha256)]_vars

\* C35: for every chunk and every list of papers the chunk loop hands to
\* them, find_matching_paper returns a primary if and only if
\* find_all_overlapping_papers returns a non-empty list, and the primary is
\* the id of one of the papers of that list.
PrimaryAmongOverlaps(chunk_info, saved_papers) ==
    LET all_overlaps == find_all_overlapping_papers(chunk_info, saved_papers)
        primary_paper_id == find_matching_paper(chunk_info, saved_papers)
    IN  /\ (primary_paper_id # NoId) <=> (all_overlaps # <<>>)
        /\ (primary_paper_id # NoId) =>
              \E k \in 1..Len(all_overlaps) : all_overlaps[k].id = primary_paper_id

PrimaryIffOverlap ==
    \A j \in config.jobs :
        (config.variant = "async" /\ run[j].pc = "chunks") =>
            \A i \in 1..Len(run[j].todo) :
                PrimaryAmongOverlaps(run[j].todo[i], run[j].detected_papers)

\* C36: the two variants of chunk-to-paper attribution agree: for every
\* chunk range and every list of papers, the filter inlined in
\* run_ingestion_pipeline selects exactly the papers that
\* find_all_overlapping_papers returns for the same page bounds.
\* The paper with its bounds under the keys the inlined filter reads.
WithServiceKeys(p) ==
    [id |-> p.id, subject |-> p.subject,
     start_page |-> IF p.start_page_estimate = NoneInt THEN AbsentKey
                    ELSE p.start_page_estimate,
     end_page |-> IF p.end_page_estimate = NoneInt THEN AbsentKey
                  ELSE p.end_page_estimate]

SelectedIds(selection) == [k \in 1..Len(selection) |-> selection[k].id]

AttributionVariantsAgree ==
    (calc.op = "papers" /\ calc.returned) =>
        SelectedIds(relevant_papers(calc.chunk_info,
                        [k \in 1..Len(calc.papers) |-> WithServiceKeys(calc.papers[k])]))
            = SelectedIds(calc.overlaps)

\* C37: every paper id that save_papers returns for a document identifies a
\* Paper row whose document hash is that document's: papers of different
\* documents are never merged into one row, even when they share subject,
\* year and exam type.
SavedPaperIdsOwnDocument ==
    \A j \in config.jobs :
        (config.variant = "pipeline" /\ run[j].pc = "chunks") =>
            \A i \in 1..Len(run[j].paper_db_ids) :
                \E row \in papers :
                    /\ row.id = run[j].paper_db_ids[i]
                    /\ row.document_sha256 = run[j].sha256

\* C38: for every file validate_pdf accepts (it returns a page count, not
\* None), every chunk split_pdf returns satisfies
\* 1 <= page_start <= page_end <= page count, also for a PDF without pages.
AcceptedChunksWithinPages ==
    (calc.op = "validate_split" /\ calc.returned /\ calc.page_count # NoneInt) =>
        \A i \in 1..Len(calc.chunks) :
            /\ 1 <= calc.chunks[i].page_start
            /\ calc.chunks[i].page_start <= calc.chunks[i].page_end
            /\ calc.chunks[i].page_end <= calc.page_count

====
